---------------------------- MODULE Spec2Model ----------------------------
(***************************************************************************)
(* One browser session of the Gemini File Search demo (src/app.py): the    *)
(* three gr.State values, the "create store" button, the remote store      *)
(* service as seen through the client, the samples folder, and the two     *)
(* generator flows (create_store_with_samples, upload_and_index) advanced  *)
(* one suspension point at a time by the UI event loop.                    *)
(*                                                                         *)
(* Text is a sequence of symbols; " " is white space.  The resource name   *)
(* of the i-th store the service creates is the text of i symbols "s".     *)
(* User-facing messages are TLA+ strings with the marks spelled [x] [!]    *)
(* [ok].                                                                   *)
(***************************************************************************)
EXTENDS Integers, Sequences, FiniteSets, TLC

(* ------------------------------ bounds -------------------------------- *)
\* stores the service creates in one run
MaxStores == 2
\* "not done" answers the service gives to one operation's re-fetches
MaxTick == 2
\* the same, in the specification of the upload flow alone (reaches the 95 cap)
MaxUploadTick == 31
\* largest chunking number the user types
MaxTok == 2
\* question/answer pairs in the conversation
MaxPairs == 2
\* buttons the user clicks in one run
MaxClicks == 3
\* the number of clicks a conversation is followed for
MaxChatClicks == 5

(* ------------------------------ text ---------------------------------- *)
None == "None"

WS == " "

RECURSIVE LStrip(_)
LStrip(s) == IF s # <<>> /\ Head(s) = WS THEN LStrip(Tail(s)) ELSE s

RECURSIVE RStrip(_)
RStrip(s) ==
    IF s # <<>> /\ s[Len(s)] = WS THEN RStrip(SubSeq(s, 1, Len(s) - 1)) ELSE s

\* str.strip()
Strip(s) == RStrip(LStrip(s))

\* the resource name store.name of the i-th created store
StoreName(i) == [k \in 1..i |-> "s"]

\* what the user can type into the API key box
Keys == { <<>>, <<WS>>, <<WS, WS>>, <<"k">>, <<WS, "k">> }

\* what the user can paste as an existing store resource
PastedNames == { <<>>, <<WS>>, <<"x">> } \cup
               { StoreName(i) : i \in 1..MaxStores } \cup
               { <<WS>> \o StoreName(i) \o <<WS>> : i \in 1..1 }

\* display file names typed for the upload
DisplayNames == { <<>>, <<WS>>, <<"d">> }

\* a gr.Number left empty yields None, written Unset
Unset == -1

Toks == {Unset} \cup 0..MaxTok

\* Python truthiness of an optional number
Truthy(n) == n # Unset /\ n # 0

(* ----------------------------- messages ------------------------------- *)
MsgKeyRequired == "[x] API key required. paste your Gemini key and click Set key."
MsgKeySet == "[ok] API key set for this session."
MsgKeyFailed == "[x] Failed to initialize client."
MsgKeyFirstAbove == "[x] Set your API key first in the section above."
MsgKeyFirst == "[x] Set your API key first."
MsgEmptyCreated == "[ok] Created empty store for uploads."
MsgPasteStore == "[!] Paste a store resource like fileSearchStores/..."
MsgUsingStore == "[ok] Using existing store"
MsgCouldNotGet == "[x] Could not get store."
MsgSelectStore == "[!] Create or select a store first."
MsgChooseFile == "[!] Choose a file to upload."
MsgUploading == "Uploading"
MsgIndexing == "Indexing"
MsgFileIndexed == "[ok] File indexed into store"
MsgPickStore == "[!] Pick or create a store first."
MsgTypeQuestion == "[!] Type a question."
MsgDone == "[ok] Done."
MsgListed == "listed"
MsgEnterDelete == "[!] Enter a store name to delete."
MsgDeleted == "Deleted"
MsgDeleteFailed == "[x] Delete failed."
MsgCreating == "Creating store"
MsgStoreCreated == "[ok] Store created and files indexed."
MsgNoClassics == "[!] Store created. no classics found to index."
\* gradio's report of an exception that left the handler
MsgRaised == "raised"

(* ------------------------------ state --------------------------------- *)
VARIABLES
    client_state,   \* gr.State: None or the client
    store_state,    \* gr.State: the active store's resource name, or <<>>
    chat_state,     \* gr.State: the conversation, a sequence of messages
    create_btn,     \* create_from_samples_btn is interactive
    stores,         \* service: indices of the stores that exist
    nstores,        \* service: stores created so far
    fs,             \* samples folder: catalog indices present and non-empty
    cf,             \* the create_store_with_samples generator
    uf,             \* the upload_and_index generator
    last,           \* the handler run most recently and what it returned
    clicks          \* button clicks so far in this run

vars == << client_state, store_state, chat_state, create_btn, stores, nstores,
           fs, cf, uf, last, clicks >>

\* a button click starts a handler
Click == clicks < MaxClicks /\ clicks' = clicks + 1

session == << client_state, store_state, chat_state >>

(* --------------------------- progress card ---------------------------- *)
\* percentages are kept in twelfths so that x/total is exact for total 1..4
PctScale == 12

Min(a, b) == IF a < b THEN a ELSE b
Max(a, b) == IF a > b THEN a ELSE b

\* format(x, ".0f"): round half to even, x given in twelfths
RoundHalfEven(x) ==
    LET q == x \div PctScale
        r == x % PctScale
    IN  IF 2 * r < PctScale THEN q
        ELSE IF 2 * r > PctScale THEN q + 1
        ELSE IF q % 2 = 0 THEN q ELSE q + 1

\* _progress_html: the percentage the card shows for pct (in twelfths)
progress_html(pct) == RoundHalfEven(Max(0, Min(100 * PctScale, pct)))

\* variant: the estimate without its cap
StepPctUncapped(tick) == 5 + tick * 3

\* min(95, 5 + tick * 3)
StepPct(tick) == Min(95, 5 + tick * 3)

(* -------------------------- remote service ---------------------------- *)
\* the store a resource name denotes, 0 when it denotes none that exists
Lookup(name) ==
    IF \E i \in stores : StoreName(i) = name
    THEN CHOOSE i \in stores : StoreName(i) = name
    ELSE 0

\* answers of operations.get to a re-fetch after `tick` snapshots: the
\* completion flag; the service stops answering "not done" after `limit`
Refetched(tick, limit) == IF tick < limit THEN BOOLEAN ELSE {TRUE}

\* the completion flag of a freshly created operation
FreshOp == BOOLEAN

(* ------------------------------- Init --------------------------------- *)
IdleCreate ==
    [ pc |-> "idle", client |-> None, store_name |-> <<>>, present |-> {}, total |-> 1,
      logs |-> <<>>, done_count |-> 0, idx |-> 0, tick |-> 0,
      op_done |-> FALSE, nfetch |-> 0, polls |-> 0,
      created |-> 0, calls |-> {}, out |-> "none",
      snap |-> [kind |-> "none", store |-> <<>>, raw |-> 0, pct |-> 0,
                head |-> "", done |-> FALSE, fetches |-> 0] ]

IdleUpload ==
    [ pc |-> "idle", client |-> None, store_name |-> <<>>, cfg |-> <<>>, tick |-> 0,
      op_done |-> FALSE, nfetch |-> 0, polls |-> 0, nsnap |-> 0,
      calls |-> {}, out |-> "none",
      snap |-> [kind |-> "none", pct |-> 0, msg |-> "", done |-> FALSE,
                fetches |-> 0] ]

NoLast == [op |-> "none", client |-> None, msg |-> "", calls |-> 0]

Init ==
    /\ client_state = None
    /\ store_state = <<>>
    /\ chat_state = <<>>
    /\ create_btn = TRUE
    /\ stores = {}
    /\ nstores = 0
    /\ fs \in SUBSET (1..4)
    /\ cf = IdleCreate
    /\ uf = IdleUpload
    /\ last = NoLast
    /\ clicks = 0

(* --------------------------- ui_set_api_key --------------------------- *)
\* genai.Client(api_key=...) either returns a client or raises
ui_set_api_key(api_key) ==
    LET key == Strip(api_key)
    IN  /\ \/ /\ key = <<>>
              /\ client_state' = None
              /\ last' = [op |-> "ui_set_api_key", client |-> client_state,
                          msg |-> MsgKeyRequired, calls |-> 0]
           \/ /\ key # <<>>
              /\ client_state' = "client"
              /\ last' = [op |-> "ui_set_api_key", client |-> client_state,
                          msg |-> MsgKeySet, calls |-> 0]
           \/ /\ key # <<>>
              /\ client_state' = None
              /\ last' = [op |-> "ui_set_api_key", client |-> client_state,
                          msg |-> MsgKeyFailed, calls |-> 0]
        /\ Click
        /\ UNCHANGED << store_state, chat_state, create_btn, stores, nstores,
                        fs, cf, uf >>

SetKey == \E k \in Keys : ui_set_api_key(k)

(* -------------------------- make_empty_store -------------------------- *)
\* file_search_stores.create: a new store, or an exception
make_empty_store ==
    /\ \/ /\ client_state = None
          /\ store_state' = <<>>
          /\ UNCHANGED << stores, nstores >>
          /\ last' = [op |-> "make_empty_store", client |-> client_state,
                      msg |-> MsgKeyFirst, calls |-> 0]
       \/ /\ client_state # None
          /\ nstores < MaxStores
          /\ nstores' = nstores + 1
          /\ stores' = stores \cup {nstores + 1}
          /\ store_state' = StoreName(nstores + 1)
          /\ last' = [op |-> "make_empty_store", client |-> client_state,
                      msg |-> MsgEmptyCreated, calls |-> 1]
       \/ /\ client_state # None
          /\ UNCHANGED << store_state, stores, nstores >>
          /\ last' = [op |-> "make_empty_store", client |-> client_state,
                      msg |-> MsgRaised, calls |-> 1]
    /\ Click
    /\ UNCHANGED << client_state, chat_state, create_btn, fs, cf, uf >>

(* ------------------------- set_existing_store ------------------------- *)
\* file_search_stores.get: the store of that name, or an exception (caught)
set_existing_store(pasted) ==
    LET name == Strip(pasted)
    IN  /\ \/ /\ client_state = None
              /\ store_state' = <<>>
              /\ last' = [op |-> "set_existing_store", client |-> client_state,
                          msg |-> MsgKeyFirst, calls |-> 0]
           \/ /\ client_state # None
              /\ name = <<>>
              /\ store_state' = <<>>
              /\ last' = [op |-> "set_existing_store", client |-> client_state,
                          msg |-> MsgPasteStore, calls |-> 0]
           \/ /\ client_state # None
              /\ name # <<>>
              /\ Lookup(name) # 0
              /\ store_state' = StoreName(Lookup(name))
              /\ last' = [op |-> "set_existing_store", client |-> client_state,
                          msg |-> MsgUsingStore, calls |-> 1]
           \/ /\ client_state # None
              /\ name # <<>>
              /\ store_state' = <<>>
              /\ last' = [op |-> "set_existing_store", client |-> client_state,
                          msg |-> MsgCouldNotGet, calls |-> 1]
        /\ Click
        /\ UNCHANGED << client_state, chat_state, create_btn, stores, nstores,
                        fs, cf, uf >>

SetExisting == \E n \in PastedNames : set_existing_store(n)

(* ---------------------- create_store_with_samples --------------------- *)
\* SAMPLE_FILES: the catalog, by position
SampleFiles == 1..4

\* _file_exists(base / spec["path"])
file_exists(i) == i \in fs

\* (done_count / total) * 100, in twelfths
DonePct(done_count, total) == (done_count * 100 * PctScale) \div total

\* (done_count / total) * 100 + (step_pct / total), in twelfths
OverallPct(done_count, total, step_pct) ==
    DonePct(done_count, total) + (step_pct * PctScale) \div total

CSnap(kind, raw, head) ==
    [kind |-> kind, store |-> cf.store_name, raw |-> raw,
     pct |-> progress_html(raw), head |-> head,
     done |-> cf.op_done, fetches |-> cf.nfetch]

\* variant: the failed call is tried again, the generator stays where it is
C_RaiseRetry(called) ==
    [cf EXCEPT !.out = "raised", !.calls = @ \cup called]

\* an exception leaves the generator: the event ends, nothing more is shown
C_Raise(called) ==
    [cf EXCEPT !.pc = "idle", !.out = "raised", !.tick = 0,
               !.op_done = FALSE, !.nfetch = 0, !.polls = 0,
               !.calls = @ \cup called]

\* lines 76-96: up to the first snapshot
C_Start ==
    /\ cf.pc = "idle"
    /\ create_btn
    /\ \/ /\ client_state = None
          /\ cf' = [IdleCreate EXCEPT
                      !.out = "nokey",
                      !.snap = [kind |-> "nokey", store |-> <<>>, raw |-> 0,
                                pct |-> progress_html(0),
                                head |-> MsgKeyFirstAbove,
                                done |-> FALSE, fetches |-> 0]]
          /\ store_state' = <<>>
          /\ create_btn' = TRUE
          /\ UNCHANGED << stores, nstores >>
          /\ last' = [op |-> "create_store_with_samples",
                      client |-> client_state, msg |-> MsgKeyFirstAbove,
                      calls |-> 0]
       \/ /\ client_state # None
          /\ nstores < MaxStores
          /\ nstores' = nstores + 1
          /\ stores' = stores \cup {nstores + 1}
          /\ cf' = [IdleCreate EXCEPT
                      !.pc = "for", !.client = client_state,
                      !.store_name = StoreName(nstores + 1),
                      !.present = {i \in SampleFiles : file_exists(i)},
                      !.total = Max(Cardinality({i \in SampleFiles :
                                                   file_exists(i)}), 1),
                      !.idx = 1, !.out = "running",
                      !.created = 1, !.calls = {"create"},
                      !.snap = [kind |-> "preparing",
                                store |-> StoreName(nstores + 1),
                                raw |-> 1 * PctScale,
                                pct |-> progress_html(1 * PctScale),
                                head |-> MsgCreating,
                                done |-> FALSE, fetches |-> 0]]
          /\ store_state' = StoreName(nstores + 1)
          /\ create_btn' = FALSE
          /\ last' = [op |-> "create_store_with_samples",
                      client |-> client_state, msg |-> MsgCreating,
                      calls |-> 1]
       \/ /\ client_state # None
          /\ cf' = [IdleCreate EXCEPT !.client = client_state,
                                      !.out = "raised",
                                      !.calls = {"create"}]
          /\ UNCHANGED << store_state, create_btn, stores, nstores >>
          /\ last' = [op |-> "create_store_with_samples",
                      client |-> client_state, msg |-> MsgRaised,
                      calls |-> 1]
    /\ Click
    /\ UNCHANGED << client_state, chat_state, fs, uf >>

\* variant: a missing catalog entry is skipped without a log line
C_DocSilent ==
    /\ cf.pc = "for"
    /\ cf.idx \in SampleFiles
    /\ IF ~file_exists(cf.idx)
       THEN cf' = [cf EXCEPT
                     !.idx = @ + 1,
                     !.snap = CSnap("missing",
                                    DonePct(cf.done_count, cf.total),
                                    MsgCreating)]
       ELSE cf' = [cf EXCEPT
                     !.pc = "upload",
                     !.logs = Append(@, <<"Uploading", cf.idx>>),
                     !.snap = CSnap("uploading",
                                    DonePct(cf.done_count, cf.total)
                                        + 5 * PctScale,
                                    MsgCreating)]
    /\ store_state' = cf.store_name
    /\ UNCHANGED << client_state, chat_state, create_btn, stores, nstores,
                    fs, uf, last, clicks >>

\* lines 101-115: the next catalog entry, missing or about to be uploaded
C_Doc ==
    /\ cf.pc = "for"
    /\ cf.idx \in SampleFiles
    /\ IF ~file_exists(cf.idx)
       THEN cf' = [cf EXCEPT
                     !.logs = Append(@, <<"Missing", cf.idx>>),
                     !.idx = @ + 1,
                     !.snap = CSnap("missing",
                                    DonePct(cf.done_count, cf.total),
                                    MsgCreating)]
       ELSE cf' = [cf EXCEPT
                     !.pc = "upload",
                     !.logs = Append(@, <<"Uploading", cf.idx>>),
                     !.snap = CSnap("uploading",
                                    DonePct(cf.done_count, cf.total)
                                        + 5 * PctScale,
                                    MsgCreating)]
    /\ store_state' = cf.store_name
    /\ UNCHANGED << client_state, chat_state, create_btn, stores, nstores,
                    fs, uf, last, clicks >>

\* lines 117-134: files.upload, then file_search_stores.import_file
C_Upload ==
    /\ cf.pc = "upload"
    /\ \/ /\ Lookup(cf.store_name) # 0
          /\ \E d \in FreshOp :
                cf' = [cf EXCEPT !.pc = "loop", !.op_done = d, !.tick = 0,
                                 !.nfetch = 0, !.polls = 0,
                                 !.calls = @ \cup {"upload", "import"}]
       \/ cf' = C_Raise({"upload"})
       \/ cf' = C_Raise({"upload", "import"})
    /\ UNCHANGED << client_state, store_state, chat_state, create_btn,
                    stores, nstores, fs, uf, last, clicks >>

\* lines 135-142: the loop's snapshot
C_PollYield ==
    /\ cf.pc = "loop"
    /\ ~cf.op_done
    /\ LET tick == cf.tick + 1
       IN  cf' = [cf EXCEPT
                    !.pc = "yielded", !.tick = tick, !.polls = @ + 1,
                    !.snap = CSnap("indexing",
                                   OverallPct(cf.done_count, cf.total,
                                              StepPct(tick)),
                                   MsgCreating)]
    /\ store_state' = cf.store_name
    /\ UNCHANGED << client_state, chat_state, create_btn, stores, nstores,
                    fs, uf, last, clicks >>

\* line 143: op = client.operations.get(op)
C_Refetch(limit) ==
    /\ cf.pc = "yielded"
    /\ \/ \E d \in Refetched(cf.tick, limit) :
             cf' = [cf EXCEPT !.pc = "loop", !.op_done = d,
                              !.nfetch = @ + 1, !.calls = @ \cup {"get"}]
       \/ cf' = C_Raise({"get"})
    /\ UNCHANGED << client_state, store_state, chat_state, create_btn,
                    stores, nstores, fs, uf, last, clicks >>

\* lines 145-149: the document is indexed
C_Indexed ==
    /\ cf.pc = "loop"
    /\ cf.op_done
    /\ cf' = [cf EXCEPT
                !.pc = "for", !.done_count = @ + 1,
                !.logs = Append(@, <<"Indexed", cf.idx>>),
                !.idx = @ + 1,
                !.tick = 0, !.op_done = FALSE, !.nfetch = 0, !.polls = 0,
                !.snap = CSnap("indexed",
                               DonePct(cf.done_count + 1, cf.total),
                               MsgCreating)]
    /\ store_state' = cf.store_name
    /\ UNCHANGED << client_state, chat_state, create_btn, stores, nstores,
                    fs, uf, last, clicks >>

\* variant: the final status always carries the success header
FinalHeaderAlwaysOk(present) == MsgStoreCreated

\* line 151: the header of the final status
FinalHeader(present) ==
    IF present # {} THEN MsgStoreCreated ELSE MsgNoClassics

\* lines 151-154: the final snapshot
C_Final ==
    /\ cf.pc = "for"
    /\ cf.idx \notin SampleFiles
    /\ cf' = [cf EXCEPT
                !.pc = "idle", !.out = "finished",
                !.snap = CSnap("final", 100 * PctScale,
                               FinalHeader(cf.present))]
    /\ store_state' = cf.store_name
    /\ create_btn' = FALSE
    /\ UNCHANGED << client_state, chat_state, stores, nstores, fs, uf, last,
                    clicks >>

\* a catalog file appears in, or disappears from, the samples folder
FsChange ==
    /\ \E i \in SampleFiles :
          fs' = IF i \in fs THEN fs \ {i} ELSE fs \cup {i}
    /\ UNCHANGED << client_state, store_state, chat_state, create_btn,
                    stores, nstores, cf, uf, last, clicks >>

(* -------------------------- upload_and_index -------------------------- *)
\* int(max_tokens or 200), int(overlap_tokens or 20)
DefaultMaxTokens == 200
DefaultOverlapTokens == 20

\* variant: the configuration is built only when both numbers are given
ChunkCfgBoth(max_tokens, overlap_tokens) ==
    IF Truthy(max_tokens) /\ Truthy(overlap_tokens)
    THEN << max_tokens, overlap_tokens >>
    ELSE <<>>

\* the chunking configuration: <<>> is None, else <<max_tokens_per_chunk,
\* max_overlap_tokens>>
ChunkCfg(max_tokens, overlap_tokens) ==
    IF Truthy(max_tokens) \/ Truthy(overlap_tokens)
    THEN << IF Truthy(max_tokens) THEN max_tokens ELSE DefaultMaxTokens,
            IF Truthy(overlap_tokens) THEN overlap_tokens
            ELSE DefaultOverlapTokens >>
    ELSE <<>>

\* the UploadToFileSearchStoreConfig: <<>> is None, else <<display_name,
\* chunking_config>>, a display name of <<>> being None
UploadCfg(display_file_name, max_tokens, overlap_tokens) ==
    LET chunk_cfg == ChunkCfg(max_tokens, overlap_tokens)
    IN  IF display_file_name # <<>> \/ chunk_cfg # <<>>
        THEN << Strip(display_file_name), chunk_cfg >>
        ELSE <<>>

USnap(kind, pct, msg) ==
    [kind |-> kind, pct |-> progress_html(pct * PctScale), msg |-> msg,
     done |-> uf.op_done, fetches |-> uf.nfetch]

\* variant: the store selection is looked at before the credential
UploadPreconditionStoreFirst(client, store_name, file_obj) ==
    IF store_name = <<>> THEN "nostore"
    ELSE IF client = None THEN "nokey"
    ELSE IF file_obj = None THEN "nofile"
    ELSE ""

\* variant: the file is looked at before the store selection
UploadPreconditionFileFirst(client, store_name, file_obj) ==
    IF client = None THEN "nokey"
    ELSE IF file_obj = None THEN "nofile"
    ELSE IF store_name = <<>> THEN "nostore"
    ELSE ""

\* which precondition of upload_and_index fails first: "" when none does
UploadPrecondition(client, store_name, file_obj) ==
    IF client = None THEN "nokey"
    ELSE IF store_name = <<>> THEN "nostore"
    ELSE IF file_obj = None THEN "nofile"
    ELSE ""

UploadWarning(why) ==
    IF why = "nokey" THEN MsgKeyFirst
    ELSE IF why = "nostore" THEN MsgSelectStore
    ELSE MsgChooseFile

\* lines 184-216: up to the first snapshot
U_Start(file_obj, display_file_name, max_tokens, overlap_tokens) ==
    LET why == UploadPrecondition(client_state, store_state, file_obj)
    IN  /\ uf.pc = "idle"
        /\ IF why # ""
           THEN uf' = [IdleUpload EXCEPT
                         !.client = client_state,
                         !.store_name = store_state,
                         !.out = why,
                         !.nsnap = 1,
                         !.snap = [kind |-> why, pct |-> progress_html(0),
                                   msg |-> UploadWarning(why),
                                   done |-> FALSE, fetches |-> 0]]
           ELSE uf' = [IdleUpload EXCEPT
                         !.pc = "call",
                         !.client = client_state,
                         !.store_name = store_state,
                         !.cfg = UploadCfg(display_file_name, max_tokens,
                                           overlap_tokens),
                         !.out = "running",
                         !.nsnap = 1,
                         !.snap = [kind |-> "uploading",
                                   pct |-> progress_html(5 * PctScale),
                                   msg |-> MsgUploading,
                                   done |-> FALSE, fetches |-> 0]]
        /\ last' = [op |-> "upload_and_index", client |-> client_state,
                    msg |-> IF why # "" THEN UploadWarning(why)
                            ELSE MsgUploading,
                    calls |-> 0]
        /\ Click
        /\ UNCHANGED << client_state, store_state, chat_state, create_btn,
                        stores, nstores, fs, cf >>

UploadStart ==
    \E f \in {None, "file"}, d \in DisplayNames, m \in Toks, o \in Toks :
        U_Start(f, d, m, o)

\* an exception leaves the generator: the event ends, nothing more is shown
U_Raise(call) ==
    [uf EXCEPT !.pc = "idle", !.out = "raised", !.cfg = <<>>, !.tick = 0,
               !.op_done = FALSE, !.nfetch = 0, !.polls = 0,
               !.calls = @ \cup {call}]

\* lines 218-224: upload_to_file_search_store
U_Call ==
    /\ uf.pc = "call"
    /\ \/ /\ Lookup(uf.store_name) # 0
          /\ \E d \in FreshOp :
                uf' = [uf EXCEPT !.pc = "loop", !.op_done = d, !.tick = 0,
                                 !.cfg = <<>>,
                                 !.calls = @ \cup {"upload_to_store"}]
       \/ uf' = U_Raise("upload_to_store")
    /\ UNCHANGED << client_state, store_state, chat_state, create_btn,
                    stores, nstores, fs, cf, last, clicks >>

\* variant: the tick is counted but its snapshot is not yielded
U_PollYieldSilent ==
    /\ uf.pc = "loop"
    /\ ~uf.op_done
    /\ uf' = [uf EXCEPT !.pc = "yielded", !.tick = @ + 1]
    /\ UNCHANGED << client_state, store_state, chat_state, create_btn,
                    stores, nstores, fs, cf, last, clicks >>

\* lines 226-231: the loop's snapshot
U_PollYield ==
    /\ uf.pc = "loop"
    /\ ~uf.op_done
    /\ LET tick == uf.tick + 1
       IN  uf' = [uf EXCEPT !.pc = "yielded", !.tick = tick,
                            !.polls = @ + 1, !.nsnap = @ + 1,
                            !.snap = USnap("indexing", StepPct(tick),
                                           MsgIndexing)]
    /\ UNCHANGED << client_state, store_state, chat_state, create_btn,
                    stores, nstores, fs, cf, last, clicks >>

\* variant: the loop gives up when the first re-fetch is not done
U_RefetchOnce(limit) ==
    /\ uf.pc = "yielded"
    /\ \/ \E d \in Refetched(uf.tick, limit) :
             uf' = [uf EXCEPT !.pc = IF d THEN "loop" ELSE "idle",
                              !.out = IF d THEN @ ELSE "timeout",
                              !.op_done = d,
                              !.nfetch = @ + 1, !.calls = @ \cup {"get"}]
       \/ uf' = U_Raise("get")
    /\ UNCHANGED << client_state, store_state, chat_state, create_btn,
                    stores, nstores, fs, cf, last, clicks >>

\* line 232: op = client.operations.get(op)
U_Refetch(limit) ==
    /\ uf.pc = "yielded"
    /\ \/ \E d \in Refetched(uf.tick, limit) :
             uf' = [uf EXCEPT !.pc = "loop", !.op_done = d,
                              !.nfetch = @ + 1, !.calls = @ \cup {"get"}]
       \/ uf' = U_Raise("get")
    /\ UNCHANGED << client_state, store_state, chat_state, create_btn,
                    stores, nstores, fs, cf, last, clicks >>

\* lines 234-237: the final snapshot
U_Finish ==
    /\ uf.pc = "loop"
    /\ uf.op_done
    /\ uf' = [uf EXCEPT !.pc = "idle", !.out = "finished", !.tick = 0,
                        !.op_done = FALSE, !.nfetch = 0, !.polls = 0,
                        !.nsnap = @ + 1,
                        !.snap = USnap("finished", 100, MsgFileIndexed)]
    /\ UNCHANGED << client_state, store_state, chat_state, create_btn,
                    stores, nstores, fs, cf, last, clicks >>

(* -------------------------------- ask --------------------------------- *)
Questions == { <<>>, <<WS>>, <<"q">>, <<WS, "q">> }

\* resp.text or "No answer text."
AnswerText(text) == IF text = <<>> THEN <<"No answer text.">> ELSE text

\* what ask does to the list it is handed, and what it returns
\* variant: a refused question is echoed into the history with its warning
ask_returnsEcho(client, store_name, history_msgs, question, text) ==
    LET q == Strip(question)
        refused(msg) ==
            [history |-> history_msgs \o
                           << [role |-> "user", content |-> q],
                              [role |-> "assistant", content |-> <<msg>>] >>,
             grounding |-> "", msg |-> msg, calls |-> 0,
             history_msgs |-> history_msgs]
    IN  IF client = None THEN refused(MsgKeyFirst)
        ELSE IF store_name = <<>> THEN refused(MsgPickStore)
        ELSE IF q = <<>> THEN refused(MsgTypeQuestion)
        ELSE [history |-> history_msgs \o
                            << [role |-> "user", content |-> q],
                               [role |-> "assistant",
                                content |-> AnswerText(text)] >>,
              grounding |-> "grounding", msg |-> MsgDone, calls |-> 1,
              history_msgs |-> history_msgs]

\* variant: the pair is appended to the list that was passed in
ask_returnsInPlace(client, store_name, history_msgs, question, text) ==
    LET q == Strip(question)
        refused(msg) == [history |-> history_msgs, grounding |-> "",
                         msg |-> msg, calls |-> 0,
                         history_msgs |-> history_msgs]
        appended == history_msgs \o
                        << [role |-> "user", content |-> q],
                           [role |-> "assistant",
                            content |-> AnswerText(text)] >>
    IN  IF client = None THEN refused(MsgKeyFirst)
        ELSE IF store_name = <<>> THEN refused(MsgPickStore)
        ELSE IF q = <<>> THEN refused(MsgTypeQuestion)
        ELSE [history |-> appended, grounding |-> "grounding",
              msg |-> MsgDone, calls |-> 1, history_msgs |-> appended]

\* lines 239-279: the returned history, grounding text and note, the number
\* of generate_content calls, and the value the list passed in has after
\* the call (history_msgs; list(...) at line 262 copies, so it is untouched).
\* text is resp.text; the grounding of an answer is never the empty text.
ask_returns(client, store_name, history_msgs, question, text) ==
    LET q == Strip(question)
        refused(msg) == [history |-> history_msgs, grounding |-> "",
                         msg |-> msg, calls |-> 0,
                         history_msgs |-> history_msgs]
    IN  IF client = None THEN refused(MsgKeyFirst)
        ELSE IF store_name = <<>> THEN refused(MsgPickStore)
        ELSE IF q = <<>> THEN refused(MsgTypeQuestion)
        ELSE [history |-> history_msgs \o
                            << [role |-> "user", content |-> q],
                               [role |-> "assistant",
                                content |-> AnswerText(text)] >>,
              grounding |-> "grounding", msg |-> MsgDone, calls |-> 1,
              history_msgs |-> history_msgs]

\* resp.text: empty, or an answer
Texts == { <<>>, <<"a">> }

\* ask with its wiring: _ask_and_update, then chat_state takes the chatbot's
\* value; generate_content answers for a store the service has, or raises
ask(question) ==
    /\ \/ \E text \in Texts :
            LET r == ask_returns(client_state, store_state, chat_state,
                                 question, text)
            IN  /\ r.calls = 1 => /\ Lookup(store_state) # 0
                                  /\ Len(chat_state) < 2 * MaxPairs
                /\ chat_state' = r.history
                /\ last' = [op |-> "ask", client |-> client_state,
                            msg |-> r.msg, calls |-> r.calls,
                            history |-> r.history,
                            grounding |-> r.grounding,
                            history_msgs |-> r.history_msgs]
       \/ /\ client_state # None
          /\ store_state # <<>>
          /\ Strip(question) # <<>>
          /\ chat_state' = chat_state
          /\ last' = [op |-> "ask", client |-> client_state,
                      msg |-> MsgRaised, calls |-> 1]
    /\ Click
    /\ UNCHANGED << client_state, store_state, create_btn, stores,
                    nstores, fs, cf, uf >>

Ask == \E q \in Questions : ask(q)

\* clear_btn: the chatbot, then chat_state, become []
Clear ==
    /\ chat_state' = <<>>
    /\ last' = [op |-> "clear", client |-> client_state, msg |-> "",
                calls |-> 0]
    /\ Click
    /\ UNCHANGED << client_state, store_state, create_btn, stores, nstores,
                    fs, cf, uf >>

(* ---------------------- list_stores, delete_store --------------------- *)
list_stores ==
    /\ \/ /\ client_state = None
          /\ last' = [op |-> "list_stores", client |-> client_state,
                      msg |-> MsgKeyFirst, calls |-> 0]
       \/ /\ client_state # None
          /\ last' = [op |-> "list_stores", client |-> client_state,
                      msg |-> MsgListed, calls |-> 1]
       \/ /\ client_state # None
          /\ last' = [op |-> "list_stores", client |-> client_state,
                      msg |-> MsgRaised, calls |-> 1]
    /\ Click
    /\ UNCHANGED << client_state, store_state, chat_state, create_btn,
                    stores, nstores, fs, cf, uf >>

\* variant: deleting the active store also clears the active reference
delete_storeClearing(store_name) ==
    /\ \/ /\ client_state = None
          /\ UNCHANGED << stores, store_state >>
          /\ last' = [op |-> "delete_store", client |-> client_state,
                      msg |-> MsgKeyFirst, calls |-> 0]
       \/ /\ client_state # None
          /\ store_name = <<>>
          /\ UNCHANGED << stores, store_state >>
          /\ last' = [op |-> "delete_store", client |-> client_state,
                      msg |-> MsgEnterDelete, calls |-> 0]
       \/ /\ client_state # None
          /\ store_name # <<>>
          /\ Lookup(store_name) # 0
          /\ stores' = stores \ {Lookup(store_name)}
          /\ store_state' = IF store_name = store_state THEN <<>>
                            ELSE store_state
          /\ last' = [op |-> "delete_store", client |-> client_state,
                      msg |-> MsgDeleted, calls |-> 1]
       \/ /\ client_state # None
          /\ store_name # <<>>
          /\ UNCHANGED << stores, store_state >>
          /\ last' = [op |-> "delete_store", client |-> client_state,
                      msg |-> MsgDeleteFailed, calls |-> 1]
    /\ Click
    /\ UNCHANGED << client_state, chat_state, create_btn,
                    nstores, fs, cf, uf >>

\* file_search_stores.delete(force): the store is gone, or an exception (caught)
delete_store(store_name) ==
    /\ \/ /\ client_state = None
          /\ UNCHANGED stores
          /\ last' = [op |-> "delete_store", client |-> client_state,
                      msg |-> MsgKeyFirst, calls |-> 0]
       \/ /\ client_state # None
          /\ store_name = <<>>
          /\ UNCHANGED stores
          /\ last' = [op |-> "delete_store", client |-> client_state,
                      msg |-> MsgEnterDelete, calls |-> 0]
       \/ /\ client_state # None
          /\ store_name # <<>>
          /\ Lookup(store_name) # 0
          /\ stores' = stores \ {Lookup(store_name)}
          /\ last' = [op |-> "delete_store", client |-> client_state,
                      msg |-> MsgDeleted, calls |-> 1]
       \/ /\ client_state # None
          /\ store_name # <<>>
          /\ UNCHANGED stores
          /\ last' = [op |-> "delete_store", client |-> client_state,
                      msg |-> MsgDeleteFailed, calls |-> 1]
    /\ Click
    /\ UNCHANGED << client_state, store_state, chat_state, create_btn,
                    nstores, fs, cf, uf >>

Delete == \E n \in PastedNames : delete_store(n)

(* --------------------------- specifications --------------------------- *)
CreateFlow(limit) ==
    \/ C_Start
    \/ C_Doc
    \/ C_Upload
    \/ C_PollYield
    \/ C_Refetch(limit)
    \/ C_Indexed
    \/ C_Final

UploadFlow(limit) ==
    \/ UploadStart
    \/ U_Call
    \/ U_PollYield
    \/ U_Refetch(limit)
    \/ U_Finish

\* the samples folders the whole-session specification starts from: none of
\* the catalog, two of its four documents, all of it
SessionFolders == { {}, {1, 3}, SampleFiles }

InitSession == Init /\ fs \in SessionFolders

\* the whole session: every handler, the two flows interleaved with them
Next ==
    \/ SetKey
    \/ make_empty_store
    \/ SetExisting
    \/ CreateFlow(MaxTick)
    \/ UploadFlow(MaxTick)
    \/ Ask
    \/ Clear
    \/ list_stores
    \/ Delete

Spec == InitSession /\ [][Next]_vars

\* the UI event loop resumes a suspended generator, and a remote call returns
Resumed ==
    /\ WF_vars(C_Doc)
    /\ WF_vars(C_Upload)
    /\ WF_vars(C_PollYield)
    /\ WF_vars(C_Refetch(MaxTick))
    /\ WF_vars(C_Indexed)
    /\ WF_vars(C_Final)
    /\ WF_vars(U_Call)
    /\ WF_vars(U_PollYield)
    /\ WF_vars(U_Refetch(MaxTick))
    /\ WF_vars(U_Finish)

FairSpec == Spec /\ Resumed

\* a conversation: the handlers without the two flows, followed for
\* MaxChatClicks clicks (the click counter starts that far below its bound)
NextChat ==
    \/ SetKey
    \/ make_empty_store
    \/ SetExisting
    \/ Ask
    \/ Clear
    \/ list_stores
    \/ Delete

InitChat ==
    /\ client_state = None
    /\ store_state = <<>>
    /\ chat_state = <<>>
    /\ create_btn = TRUE
    /\ stores = {}
    /\ nstores = 0
    /\ fs = {}
    /\ cf = IdleCreate
    /\ uf = IdleUpload
    /\ last = NoLast
    /\ clicks = MaxClicks - MaxChatClicks

SpecChat == InitChat /\ [][NextChat]_vars

\* the create flow while the samples folder changes under it
NextFs ==
    \/ SetKey
    \/ CreateFlow(MaxTick)
    \/ FsChange

SpecFs == Init /\ [][NextFs]_vars

\* the upload flow with the store selection it needs, polled long enough
\* to reach the 95% cap
NextUpload ==
    \/ SetKey
    \/ make_empty_store
    \/ SetExisting
    \/ UploadFlow(MaxUploadTick)

InitUpload == Init /\ fs = {}

SpecUpload == InitUpload /\ [][NextUpload]_vars

\* the create flow over every samples folder
NextCreate ==
    \/ SetKey
    \/ CreateFlow(MaxTick)

SpecCreate == Init /\ [][NextCreate]_vars

(* ------------------------------- claims ------------------------------- *)
Flows == {"create", "upload"}

\* the fields the two generators share
Flow(name) ==
    IF name = "create"
    THEN [pc |-> cf.pc, op_done |-> cf.op_done, nfetch |-> cf.nfetch,
          polls |-> cf.polls, kind |-> cf.snap.kind, done |-> cf.snap.done,
          fetches |-> cf.snap.fetches, out |-> cf.out]
    ELSE [pc |-> uf.pc, op_done |-> uf.op_done, nfetch |-> uf.nfetch,
          polls |-> uf.polls, kind |-> uf.snap.kind, done |-> uf.snap.done,
          fetches |-> uf.snap.fetches, out |-> uf.out]

\* the loop has just seen the N-th re-fetch report done, N >= 1
LoopLeftAfter(f) == f.pc = "loop" /\ f.op_done /\ f.nfetch >= 1

\* C1 (as amended): in both poll loops the k-th snapshot is yielded before
\* the k-th re-fetch, while the operation is still seen not done; so an
\* operation first reported done by the N-th re-fetch (N >= 1) has produced
\* exactly N loop snapshots, the last of them before that re-fetch, and the
\* completed state is shown only by the snapshot after the loop.
C1_PollSnapshots ==
    \A n \in Flows :
        LET f == Flow(n)
        IN  /\ f.pc = "loop" => f.polls = f.nfetch
            /\ f.pc = "yielded" =>
                   /\ f.polls = f.nfetch + 1
                   /\ f.kind = "indexing"
                   /\ f.fetches = f.nfetch
                   /\ ~f.done
            /\ LoopLeftAfter(f) =>
                   /\ f.polls = f.nfetch
                   /\ f.kind = "indexing"
                   /\ f.fetches = f.nfetch - 1
                   /\ ~f.done
            /\ f.kind \in {"indexed", "finished"} => f.done

\* C1 as stated: the last of the N loop snapshots is yielded for the
\* completed state, after the re-fetch that returned done.
C1_LastSnapshotAfterDone ==
    \A n \in Flows :
        LET f == Flow(n)
        IN  LoopLeftAfter(f) =>
                /\ f.polls = f.nfetch
                /\ f.kind = "indexing"
                /\ f.fetches = f.nfetch
                /\ f.done

\* both loops have been left after two re-fetches
C1_Witness ==
    /\ LoopLeftAfter(Flow("create")) /\ cf.nfetch = 2 /\ cf.polls = 2
    /\ uf.out = "finished" /\ uf.nsnap = 4

\* C2: in a run of upload_and_index the percentages shown never decrease
\* and lie in 0..100; a snapshot taken while the operation is not seen done
\* shows at most 95; 100 is shown only once the operation is seen done.
C2_UploadPercent ==
    /\ [](/\ uf.snap.pct \in 0..100
          /\ ~uf.snap.done => uf.snap.pct <= 95
          /\ uf.snap.pct = 100 => (uf.snap.done /\ uf.snap.kind = "finished"))
    /\ [][uf'.nsnap = uf.nsnap + 1 => uf'.snap.pct >= uf.snap.pct]_vars

\* the estimate sits at its cap while the operation is still not done
C2_Witness ==
    /\ uf.pc = "yielded"
    /\ uf.tick = 31
    /\ uf.snap.pct = 95
    /\ ~uf.snap.done

\* the text is empty or white space only
IsBlank(text) == \A i \in 1..Len(text) : text[i] = WS

StoreOps ==
    { "create_store_with_samples", "make_empty_store", "set_existing_store",
      "upload_and_index", "ask", "list_stores", "delete_store" }

CredentialMsgs == { MsgKeyFirst, MsgKeyFirstAbove }

\* C3: a blank or white-space-only key leaves the session client None, and
\* with the client None each of the seven store/query operations returns
\* the credential-required message and makes no remote call.
C3_CredentialGate ==
    [][ /\ \A k \in Keys :
              (IsBlank(k) /\ ui_set_api_key(k)) => client_state' = None
        /\ (client_state = None /\ clicks' # clicks /\ last'.op \in StoreOps)
              => /\ last'.msg \in CredentialMsgs
                 /\ last'.calls = 0
                 /\ stores' = stores
                 /\ nstores' = nstores
                 /\ last'.op = "create_store_with_samples" =>
                        (cf'.pc = "idle" /\ cf'.out = "nokey"
                            /\ cf'.calls = {})
                 /\ last'.op = "upload_and_index" =>
                        (uf'.pc = "idle" /\ uf'.out = "nokey"
                            /\ uf'.calls = {})
                 /\ last'.op \notin {"create_store_with_samples",
                                     "upload_and_index"} =>
                        (cf' = cf /\ uf' = uf)
      ]_vars

\* without a client, both flows and delete_store have been refused
C3_Witness ==
    /\ client_state = None
    /\ cf.out = "nokey"
    /\ uf.out = "nokey" /\ uf.snap.msg = MsgKeyFirst
    /\ last.op = "delete_store" /\ last.msg = MsgKeyFirst /\ last.calls = 0

Polling == {"loop", "yielded"}

\* C4: a flow that is polling leaves its loop only when a status check has
\* reported done or a remote call has raised; while the operation is not
\* done the next snapshot of the loop is always possible (no timeout, no
\* attempt bound); and, resumed by the event loop with a service that ends
\* up reporting done, it comes to its final snapshot unless a call raises.
C4_PollUntilDone ==
    /\ (cf.pc \in Polling) ~> (cf.out \in {"finished", "raised"})
    /\ (uf.pc \in Polling) ~> (uf.out \in {"finished", "raised"})
    /\ [][ /\ (cf.pc \in Polling /\ cf'.pc \notin Polling) =>
                  (cf.op_done \/ cf'.out = "raised")
           /\ (uf.pc \in Polling /\ uf'.pc \notin Polling) =>
                  (uf.op_done \/ uf'.out = "raised")
           /\ (cf'.snap.kind = "final" /\ cf.snap.kind # "final") =>
                  cf.pc = "for"
           /\ (uf'.snap.kind = "finished" /\ uf.snap.kind # "finished") =>
                  (uf.pc = "loop" /\ uf.op_done)
         ]_vars
    /\ []((cf.pc = "loop" /\ ~cf.op_done) => ENABLED C_PollYield)
    /\ []((uf.pc = "loop" /\ ~uf.op_done) => ENABLED U_PollYield)

\* the create flow has polled and come to its final snapshot
C4_Witness ==
    /\ cf.out = "finished" /\ cf.snap.kind = "final" /\ cf.snap.pct = 100
    /\ "get" \in cf.calls

PreconditionMsgs ==
    { MsgKeyFirst, MsgKeyFirstAbove, MsgPasteStore, MsgSelectStore,
      MsgChooseFile, MsgPickStore, MsgTypeQuestion }

\* C5: a handler that stops at a precondition (no credential, blank store
\* reference, blank question, no file) makes no remote call and leaves the
\* credential, the active store reference and the conversation as they were.
C5_ZeroSideEffects ==
    [][ (clicks' # clicks /\ last'.msg \in PreconditionMsgs) =>
            /\ last'.calls = 0
            /\ stores' = stores
            /\ nstores' = nstores
            /\ client_state' = client_state
            /\ store_state' = store_state
            /\ chat_state' = chat_state
      ]_vars

\* C6: an exception of get-store or delete-store is caught and returned as
\* a failure message; an exception of create-store, upload, import,
\* upload-and-index, re-fetch or generate-content leaves the handler, which
\* makes one attempt only, shows no further snapshot (no 100% / success)
\* and makes no further remote call.
C6_RemoteFailures ==
    /\ [](/\ last.op = "set_existing_store" =>
                 /\ last.msg # MsgRaised
                 /\ last.calls = 1 => last.msg \in {MsgUsingStore,
                                                    MsgCouldNotGet}
          /\ last.op = "delete_store" =>
                 /\ last.msg # MsgRaised
                 /\ last.calls = 1 => last.msg \in {MsgDeleted,
                                                    MsgDeleteFailed}
          /\ last.calls <= 1
          /\ cf.out = "raised" =>
                 (cf.pc = "idle" /\ cf.snap.kind # "final"
                     /\ (cf.snap.kind = "none" \/ cf.snap.raw < 100 * PctScale))
          /\ uf.out = "raised" =>
                 (uf.pc = "idle" /\ uf.snap.kind # "finished"
                     /\ uf.snap.pct < 100))
    /\ [][ /\ (cf.out = "raised" /\ clicks' = clicks) => cf' = cf
           /\ (uf.out = "raised" /\ clicks' = clicks) => uf' = uf
           /\ (clicks' # clicks /\ last'.msg = MsgRaised) =>
                  /\ last'.op \in {"create_store_with_samples",
                                   "make_empty_store", "ask", "list_stores"}
                  /\ last'.calls = 1
                  /\ UNCHANGED << stores, nstores >>
         ]_vars

\* an import has raised in the create flow and a get-store failure was caught
C6_Witness ==
    /\ cf.out = "raised" /\ "import" \in cf.calls
    /\ last.op = "set_existing_store" /\ last.msg = MsgCouldNotGet

\* the log of a run over a folder holding exactly the catalog entries in S
RECURSIVE CatalogLog(_, _)
CatalogLog(i, S) ==
    IF i \notin SampleFiles THEN <<>>
    ELSE (IF i \in S THEN << <<"Uploading", i>>, <<"Indexed", i>> >>
                     ELSE << <<"Missing", i>> >>) \o CatalogLog(i + 1, S)

Lines(kind) == Cardinality({ i \in 1..Len(cf.logs) : cf.logs[i][1] = kind })

\* C7: with k of the four catalog documents in the folder (the folder
\* unchanged, every call succeeding) the finished run has created one store
\* and its log has k Indexed and 4-k Missing lines, each present document
\* uploaded, imported and indexed in catalog order; the final status
\* carries the success header when k >= 1.
C7_CatalogRun ==
    cf.out = "finished" =>
        LET k == Cardinality(fs)
        IN  /\ cf.created = 1
            /\ nstores = 1
            /\ cf.present = fs
            /\ Lines("Indexed") = k
            /\ Lines("Missing") = 4 - k
            /\ cf.done_count = k
            /\ cf.logs = CatalogLog(1, fs)
            /\ k >= 1 => /\ cf.snap.head = MsgStoreCreated
                         /\ {"upload", "import"} \subseteq cf.calls

\* a finished run over a folder holding two of the four documents
C7_Witness ==
    /\ cf.out = "finished"
    /\ Cardinality(fs) = 2
    /\ Lines("Indexed") = 2
    /\ Lines("Missing") = 2

\* C8: over a folder with none of the catalog's documents the run still
\* creates exactly one store, makes no upload or import call, carries that
\* store's resource name on every snapshot and ends at 100% with the
\* degraded-success header, not the success header and not an error.
C8_EmptyFolder ==
    (fs = {} /\ cf.out \in {"running", "finished"}) =>
        /\ cf.created = 1
        /\ cf.calls = {"create"}
        /\ cf.store_name # <<>>
        /\ cf.snap.store = cf.store_name
        /\ store_state = cf.store_name
        /\ cf.out = "finished" =>
               /\ cf.snap.kind = "final"
               /\ cf.snap.pct = 100
               /\ cf.snap.head = MsgNoClassics
               /\ cf.snap.head \notin {MsgStoreCreated, MsgRaised,
                                       MsgKeyFirstAbove}
               /\ Lines("Missing") = 4

\* the run over an empty folder has finished
C8_Witness ==
    /\ fs = {}
    /\ cf.out = "finished"
    /\ cf.snap.head = MsgNoClassics
    /\ cf.snap.pct = 100

\* C9: upload_and_index looks at the credential, then the store selection,
\* then the file; the first that is missing decides the one snapshot shown,
\* each with its own warning, at 0%, and no remote call is made.
C9_UploadPreconditions ==
    [][ \A f \in {None, "file"}, d \in DisplayNames, m \in Toks, o \in Toks :
          U_Start(f, d, m, o) =>
            LET warning == IF client_state = None THEN MsgKeyFirst
                           ELSE IF store_state = <<>> THEN MsgSelectStore
                           ELSE IF f = None THEN MsgChooseFile
                           ELSE ""
            IN  /\ Cardinality({MsgKeyFirst, MsgSelectStore,
                                MsgChooseFile}) = 3
                /\ warning # "" =>
                       /\ uf'.snap.msg = warning
                       /\ uf'.snap.pct = 0
                       /\ uf'.nsnap = 1
                       /\ uf'.pc = "idle"
                       /\ uf'.calls = {}
                       /\ last'.calls = 0
                       /\ UNCHANGED << stores, nstores >>
                /\ warning = "" => (uf'.pc = "call" /\ uf'.snap.pct = 5)
      ]_vars

\* with a credential and a store, the missing file alone has stopped the run
C9_Witness ==
    /\ uf.out = "nofile"
    /\ uf.client # None
    /\ uf.store_name # <<>>
    /\ uf.snap.msg = MsgChooseFile
    /\ uf.snap.pct = 0
    /\ uf.nsnap = 1

\* the chunking configuration inside an upload configuration
ChunkOf(cfg) == IF cfg = <<>> THEN <<>> ELSE cfg[2]

Zeroish(n) == n = 0 \/ n = Unset

\* C10: for non-negative (max_tokens, overlap_tokens) the chunking
\* configuration is omitted when both are 0 or unset, and is otherwise
\* (max_tokens if non-zero else 200, overlap_tokens if non-zero else 20).
C10_Chunking ==
    [][ \A f \in {None, "file"}, d \in DisplayNames, m \in Toks, o \in Toks :
          (U_Start(f, d, m, o) /\ uf'.pc = "call") =>
              ChunkOf(uf'.cfg) =
                  IF Zeroish(m) /\ Zeroish(o) THEN <<>>
                  ELSE << IF Zeroish(m) THEN 200 ELSE m,
                          IF Zeroish(o) THEN 20 ELSE o >>
      ]_vars

\* only the overlap was given: the chunk size falls back to 200
C10_Witness ==
    /\ uf.pc = "call"
    /\ uf.cfg # <<>>
    /\ ChunkOf(uf.cfg) = <<200, 1>>

\* C11: ask, stopped by a precondition (credential, then store, then blank
\* or white-space-only question), returns the history it was passed with
\* nothing appended, an empty grounding text, and makes no remote call.
C11_AskRefused ==
    [][ \A q \in Questions :
          (ask(q) /\ (client_state = None \/ store_state = <<>>
                        \/ IsBlank(q))) =>
              /\ last'.msg = IF client_state = None THEN MsgKeyFirst
                             ELSE IF store_state = <<>> THEN MsgPickStore
                             ELSE MsgTypeQuestion
              /\ last'.history = chat_state
              /\ last'.history_msgs = chat_state
              /\ chat_state' = chat_state
              /\ last'.grounding = ""
              /\ last'.calls = 0
              /\ UNCHANGED << stores, nstores >>
      ]_vars

\* a blank question was refused while the conversation held an answer
C11_Witness ==
    /\ last.op = "ask"
    /\ last.msg = MsgTypeQuestion
    /\ Len(chat_state) = 2
    /\ last.history = chat_state
    /\ last.grounding = ""

Role(i) == IF i % 2 = 1 THEN "user" ELSE "assistant"

\* C12: a successful ask makes one generate call and returns the history it
\* was passed (left as it was) followed by one user and one assistant
\* message; the session history has even length and alternates
\* user/assistant, grows only by such a pair and shrinks only through Clear.
C12_AppendOnly ==
    /\ [](/\ Len(chat_state) % 2 = 0
          /\ \A i \in 1..Len(chat_state) : chat_state[i].role = Role(i))
    /\ [][ /\ (clicks' # clicks /\ last'.op = "ask" /\ last'.msg = MsgDone) =>
                  /\ last'.calls = 1
                  /\ last'.history_msgs = chat_state
                  /\ Len(last'.history) = Len(chat_state) + 2
                  /\ SubSeq(last'.history, 1, Len(chat_state)) = chat_state
                  /\ last'.history[Len(chat_state) + 1].role = "user"
                  /\ last'.history[Len(chat_state) + 2].role = "assistant"
                  /\ chat_state' = last'.history
           /\ Len(chat_state') < Len(chat_state) =>
                  (last'.op = "clear" /\ chat_state' = <<>>)
           /\ chat_state' # chat_state =>
                  (clicks' # clicks /\ last'.op \in {"ask", "clear"})
           /\ (chat_state' # chat_state /\ last'.op = "ask") =>
                  last'.msg = MsgDone
         ]_vars

\* two questions have been answered, one after the other
C12_Witness ==
    /\ Len(chat_state) = 4
    /\ last.op = "ask"
    /\ last.msg = MsgDone
    /\ last.history_msgs = SubSeq(chat_state, 1, 2)

\* C13: only one flow is driven at a time, so the session values are not
\* written by two interleaved flows; stated on its named consequence: once
\* set_existing_store or make_empty_store has been the latest handler to
\* run, no later snapshot of a flow started before it changes the active
\* store reference.
C13_OneFlowAtATime ==
    [][ (last.op \in {"set_existing_store", "make_empty_store"}
            /\ clicks' = clicks) => store_state' = store_state
      ]_vars

\* C14: in a run of create_store_with_samples the percentage shown never
\* decreases from one snapshot to the next, from "Preparing indexing" to
\* the final 100%.
C14_CreateMonotone ==
    [][ (cf.out = "running" /\ cf'.out \in {"running", "finished"}) =>
            cf'.snap.pct >= cf.snap.pct
      ]_vars

\* C15: when catalog files appear or disappear between the presence scan and
\* the per-document check, done_count still never exceeds total, the raw
\* overall percentage stays within 0..100, and the final header is the
\* success header exactly when a document was indexed in that run.
C15_FolderChanges ==
    cf.out \in {"running", "finished"} =>
        /\ cf.done_count <= cf.total
        /\ cf.snap.raw >= 0
        /\ cf.snap.raw <= 100 * PctScale
        /\ cf.out = "finished" =>
               /\ cf.snap.head = MsgStoreCreated <=> cf.done_count >= 1
               /\ cf.snap.head = MsgNoClassics <=> cf.done_count = 0

\* C16: delete_store leaves the credential, the active store reference and
\* the conversation as they were, whatever its outcome and even when it
\* deletes the active store; stores disappear from the service only through
\* a successful delete_store, never through a handler that switches the
\* active store or a step of a flow.
C16_DeleteKeepsSession ==
    [][ /\ (clicks' # clicks /\ last'.op = "delete_store") =>
               /\ client_state' = client_state
               /\ store_state' = store_state
               /\ chat_state' = chat_state
        /\ (clicks' # clicks
                /\ last'.op \in {"set_existing_store", "make_empty_store",
                                 "create_store_with_samples"}) =>
               /\ stores \subseteq stores'
               /\ last'.calls <= 1
        /\ clicks' = clicks => stores \subseteq stores'
        /\ stores' # stores /\ stores' \subseteq stores =>
               (last'.op = "delete_store" /\ last'.msg = MsgDeleted)
      ]_vars

\* the active store has been deleted and is still the active reference
C16_Witness ==
    /\ last.op = "delete_store"
    /\ last.msg = MsgDeleted
    /\ store_state # <<>>
    /\ Lookup(store_state) = 0

====
